---- MODULE Spec2Model ----
(***************************************************************************)
(* Model of the AceSweeps backend (server.js): the spin_codes and          *)
(* spin_results tables, and the request handlers POST /admin/generate,     *)
(* POST /spin/verify and POST /spin/play running concurrently against a    *)
(* PostgreSQL store (READ COMMITTED, row locks taken by SELECT FOR UPDATE).*)
(*                                                                         *)
(* Every await of a handler is a scheduling point; the code between two    *)
(* awaits runs atomically (single-threaded event loop), so one action is   *)
(* one query together with the synchronous code that follows it.           *)
(***************************************************************************)
EXTENDS Integers, Sequences, FiniteSets

(***************************************************************************)
(* Bounds of the model.                                                    *)
(***************************************************************************)
\* Number of HTTP requests handled in one behaviour.
NumCalls == 2
\* generateSpinCode draws from 10000 .. 10000 + GenRange - 1 (90000 in the code).
GenRange == 2

Calls == 1 .. NumCalls

(***************************************************************************)
(* Text: a string is a sequence of one-character strings.                  *)
(***************************************************************************)
Digits == <<"0", "1", "2", "3", "4", "5", "6", "7", "8", "9">>

DigitSet == {Digits[i] : i \in 1 .. 10}

\* Number.prototype.toString for a non-negative integer.
RECURSIVE NumberToString(_)
NumberToString(n) ==
    IF n < 10 THEN <<Digits[n + 1]>>
    ELSE NumberToString(n \div 10) \o <<Digits[(n % 10) + 1]>>

\* req.body.code when the field is absent.
Missing == <<>>

\* Request bodies tried for `code`: two values the generator can produce,
\* four digits, a non-numeric string, and no field at all.
CodeInputs ==
    { NumberToString(10000), NumberToString(10001),
      <<"1", "2", "3", "4">>,
      <<"1", "2", "3", "4", "a">>,
      Missing }

\* Request bodies tried for `count`: nothing to issue, one code, two codes.
CountInputs == {0, 1, 2}

(***************************************************************************)
(* Utility functions of server.js.                                         *)
(***************************************************************************)
\* Weights in hundredths, payouts in cents.
SPIN_OUTCOMES ==
    << [prize |-> "$100",      weight |-> 5,  cents |-> 10000],
       [prize |-> "$75",       weight |-> 10, cents |-> 7500],
       [prize |-> "$50",       weight |-> 15, cents |-> 5000],
       [prize |-> "$25",       weight |-> 20, cents |-> 2500],
       [prize |-> "$10",       weight |-> 20, cents |-> 1000],
       [prize |-> "$5",        weight |-> 20, cents |-> 500],
       [prize |-> "Try Again", weight |-> 10, cents |-> 0] >>

\* Math.random() is modelled on a grid of Ticks values per hundredth: r
\* stands for r / (100 * Ticks) in [0, 1). With Ticks = 2 the even values
\* are the multiples of 0.01, among them every boundary between two tiers,
\* and the odd values lie strictly between two of them.
Ticks == 2

\* Values of Math.random() tried by a redemption: the least and the greatest.
RandomSamples == {0, 100 * Ticks - 1}

\* Every value of Math.random() on the grid.
RandomValues == 0 .. 100 * Ticks - 1

\* Mutant of generateSpinCode: Math.floor(1000 + Math.random() * 9000).
generateSpinCodeShort(u) == NumberToString(1000 + u)

\* Math.floor(10000 + Math.random() * 90000).toString(), u = floor(random * 90000).
generateSpinCode(u) == NumberToString(10000 + u)

\* Mutant of WalkOutcomes: the comparison is random < cumulativeWeight.
RECURSIVE WalkOutcomesStrict(_, _, _)
WalkOutcomesStrict(random, i, cumulativeWeight) ==
    IF i > Len(SPIN_OUTCOMES) THEN SPIN_OUTCOMES[Len(SPIN_OUTCOMES)]
    ELSE IF random < Ticks * (cumulativeWeight + SPIN_OUTCOMES[i].weight)
         THEN SPIN_OUTCOMES[i]
         ELSE WalkOutcomesStrict(random, i + 1, cumulativeWeight + SPIN_OUTCOMES[i].weight)

\* Mutant of WalkOutcomes: the line after the loop is missing, the function
\* returns undefined when no tier was returned in the loop.
RECURSIVE WalkOutcomesNoFallback(_, _, _)
WalkOutcomesNoFallback(random, i, cumulativeWeight) ==
    IF i > Len(SPIN_OUTCOMES) THEN [prize |-> "", weight |-> 0, cents |-> 0]
    ELSE IF random <= Ticks * (cumulativeWeight + SPIN_OUTCOMES[i].weight)
         THEN SPIN_OUTCOMES[i]
         ELSE WalkOutcomesNoFallback(random, i + 1, cumulativeWeight + SPIN_OUTCOMES[i].weight)

\* Mutant of WalkOutcomes: cumulativeWeight is not accumulated, random is
\* compared with the weight of each tier alone.
RECURSIVE WalkOutcomesNoAccumulate(_, _, _)
WalkOutcomesNoAccumulate(random, i, cumulativeWeight) ==
    IF i > Len(SPIN_OUTCOMES) THEN SPIN_OUTCOMES[Len(SPIN_OUTCOMES)]
    ELSE IF random <= Ticks * SPIN_OUTCOMES[i].weight
         THEN SPIN_OUTCOMES[i]
         ELSE WalkOutcomesNoAccumulate(random, i + 1, cumulativeWeight)

\* The loop of selectWeightedOutcome from tier i on, cumulativeWeight being
\* the sum of the weights before it (in hundredths), and the fallback to
\* the last tier after the loop.
RECURSIVE WalkOutcomes(_, _, _)
WalkOutcomes(random, i, cumulativeWeight) ==
    IF i > Len(SPIN_OUTCOMES) THEN SPIN_OUTCOMES[Len(SPIN_OUTCOMES)]
    ELSE IF random <= Ticks * (cumulativeWeight + SPIN_OUTCOMES[i].weight)
         THEN SPIN_OUTCOMES[i]
         ELSE WalkOutcomes(random, i + 1, cumulativeWeight + SPIN_OUTCOMES[i].weight)

selectWeightedOutcome(random) == WalkOutcomes(random, 1, 0)

\* Mutant of ValidFormat: the regular expression is not tested.
ValidFormatLengthOnly(code) == code # Missing /\ Len(code) = 5

\* !code || code.length !== 5 || !/^\d{5}$/.test(code), negated.
ValidFormat(code) ==
    /\ code # Missing
    /\ Len(code) = 5
    /\ \A i \in 1 .. Len(code) : code[i] \in DigitSet

\* Text of a JS number w / 100 (w in hundredths), as sent for the NUMERIC
\* parameter $4 and as returned for the column odds: 5 -> "0.05", 10 -> "0.1".
NumberText(w) ==
    NumberToString(w \div 100) \o
    ( IF w % 100 = 0 THEN <<>>
      ELSE IF w % 10 = 0 THEN <<".", Digits[((w % 100) \div 10) + 1]>>
      ELSE <<".", Digits[((w % 100) \div 10) + 1], Digits[(w % 10) + 1]>> )

DigitValue(ch) == (CHOOSE i \in 1 .. 10 : Digits[i] = ch) - 1

RECURSIVE ParseDigits(_)
ParseDigits(text) ==
    IF text = <<>> THEN 0
    ELSE 10 * ParseDigits(SubSeq(text, 1, Len(text) - 1)) + DigitValue(text[Len(text)])

\* parseFloat of a decimal text with at most two fraction digits, in hundredths.
parseFloat(text) ==
    LET dots == {i \in 1 .. Len(text) : text[i] = "."}
    IN  IF dots = {} THEN 100 * ParseDigits(text)
        ELSE LET d == CHOOSE i \in dots : TRUE
                 frac == SubSeq(text, d + 1, Len(text))
             IN  100 * ParseDigits(SubSeq(text, 1, d - 1))
                 + (IF Len(frac) = 1 THEN 10 * ParseDigits(frac) ELSE ParseDigits(frac))

(***************************************************************************)
(* State.                                                                  *)
(***************************************************************************)
VARIABLES
    spin_codes,     \* committed rows of table spin_codes
    spin_results,   \* committed rows of table spin_results
    codes_seq,      \* last value of the SERIAL sequence of spin_codes.id
    results_seq,    \* last value of the SERIAL sequence of spin_results.id
    calls,          \* per request: handler position, locals, connection, transaction
    sessions,       \* the Map sessions of the session-keeping server: token -> session
    clock           \* Date.now(), in units of twelve hours

vars == <<spin_codes, spin_results, codes_seq, results_seq, calls, sessions, clock>>

NoRow == [id |-> 0, code |-> Missing, status |-> "none"]

NoOutcome == [prize |-> "", weight |-> 0, cents |-> 0]

\* No value of Math.random() is in hand.
NoRandom == -1

\* No session token: the request has no Authorization header, or the login
\* response has no token.
NoToken == 0

NoResult == [outcome |-> "", prize_cents |-> 0, odds |-> 0, spin_id |-> 0, timestamp |-> 0]

NoResultRow ==
    [id |-> 0, code_id |-> 0, outcome |-> "", prize_cents |-> 0, odds |-> <<>>, created_at |-> 0]

\* No response has been sent.
NoResponse ==
    [status |-> 0, error |-> "", result |-> NoResult, codes |-> <<>>, generated |-> 0]

ErrorResponse(status, error) ==
    [status |-> status, error |-> error, result |-> NoResult, codes |-> <<>>, generated |-> 0]

IdleCall ==
    [ pc |-> "idle", op |-> "none", code |-> Missing, count |-> 0,
      conn |-> "none", broken |-> FALSE, tx |-> "none", locked |-> {},
      updated |-> {}, inserted |-> {},
      codeData |-> NoRow, outcome |-> NoOutcome, random |-> NoRandom,
      codes |-> <<>>, i |-> 0,
      resultInsert |-> NoResultRow, pending |-> NoResponse,
      atStart |-> "none", draws |-> 0, collided |-> FALSE,
      token |-> NoToken, username |-> "", password |-> "", granted |-> NoToken,
      resp |-> NoResponse ]

\* The tables as initializeDatabase finds them (CREATE TABLE IF NOT EXISTS
\* keeps the rows of earlier runs): one code, issued before the server
\* started and still unused; every other code has yet to be generated.
IssuedBefore ==
    { [id |-> 1, code |-> generateSpinCode(0), status |-> "unused",
       created_at |-> 0, used_at |-> 0] }

Init ==
    /\ spin_codes = IssuedBefore
    /\ codes_seq = 1
    /\ spin_results = {}
    /\ results_seq = 0
    /\ calls = [p \in Calls |-> IdleCall]
    /\ sessions = {}
    /\ clock = 0

(***************************************************************************)
(* The store.                                                              *)
(***************************************************************************)
\* Mutant of RowsByCode: the WHERE clause is missing.
RowsByCodeNoWhere(code) == spin_codes

\* Mutant of RowsByCode: the read sees the uncommitted UPDATE of another
\* transaction (a dirty read, which READ COMMITTED excludes).
RowsByCodeDirty(code) ==
    { IF \E q \in Calls : row.id \in calls[q].updated
      THEN [row EXCEPT !.status = "used", !.used_at = 1] ELSE row
      : row \in {r \in spin_codes : r.code = code} }

\* SELECT ... FROM spin_codes WHERE code = $1 (committed rows; code is UNIQUE).
RowsByCode(code) == {row \in spin_codes : row.code = code}

\* status of the row with this code, "absent" when there is none.
StatusOf(code) ==
    IF RowsByCode(code) = {} THEN "absent"
    ELSE (CHOOSE row \in RowsByCode(code) : TRUE).status

\* Rows of spin_results that reference the code row with this id.
ResultsOf(id) == {res \in spin_results : res.code_id = id}

\* Outcomes of a query on a connection: it returns, it fails with the
\* connection still usable, or the connection is lost (the server then
\* aborts the open transaction and drops its row locks). Every query on a
\* lost connection fails.
QueryOutcomes(p) ==
    IF calls[p].broken THEN {"lost"} ELSE {"ok", "error", "lost"}

\* ROLLBACK fails only when the connection is lost.
RollbackOutcomes(p) == QueryOutcomes(p) \ {"error"}

\* Outcomes of pool.query / pool.connect.
PoolOutcomes == {"ok", "error"}

\* Mutant of Aborted: the writes are discarded but the row locks stay with
\* the connection.
AbortedKeepsLocks(c) ==
    [c EXCEPT !.tx = "none", !.updated = {}, !.inserted = {}]

\* State of a call's transaction after it ended without commit: its writes
\* are discarded and its row locks dropped.
Aborted(c) ==
    [c EXCEPT !.tx = "none", !.locked = {}, !.updated = {}, !.inserted = {}]

\* A query of /spin/play threw: control goes to the catch block, which uses
\* none of the locals of the try block. A failed statement leaves the
\* transaction open but doomed: its writes can no longer commit, its row
\* locks stay until ROLLBACK. A lost connection ends the transaction.
Thrown(c, qo) ==
    LET caught == [c EXCEPT !.pc = "catch", !.codeData = NoRow, !.outcome = NoOutcome,
                            !.resultInsert = NoResultRow, !.pending = NoResponse,
                            !.updated = {}, !.inserted = {}]
    IN  IF qo = "lost" THEN [Aborted(caught) EXCEPT !.broken = TRUE] ELSE caught

\* The calls arrive in the order of their numbers.
MayStart(p) ==
    /\ calls[p].pc = "idle"
    /\ \A q \in Calls : q < p => calls[q].pc # "idle"

\* The step of a handler of server.js, or of a handler behind requireAuth
\* once the request is let through: it writes its call's record and leaves
\* the sessions and the clock alone.
Put(p, c) ==
    /\ calls' = [calls EXCEPT ![p] = c]
    /\ UNCHANGED <<sessions, clock>>

DbUnchanged == UNCHANGED <<spin_codes, spin_results, codes_seq, results_seq>>

\* Mutant of InTransaction: the statements are sent outside the transaction
\* (pool.query instead of client.query), each one committing alone.
InTransactionNever(c) == FALSE

\* A statement of a connection runs in its open transaction, or alone
\* (autocommit) when BEGIN did not open one.
InTransaction(c) == c.tx = "open"

\* Row ids locked by transactions of other calls.
LockedByOthers(p) == UNION {calls[q].locked : q \in Calls \ {p}}

\* Mutant of MustWait: the SELECT has no FOR UPDATE clause.
MustWaitNever(p, rows) == FALSE

\* Mutant of MustWait: a table lock (LOCK TABLE spin_codes) instead of row
\* locks.
MustWaitAnyLock(p, rows) == LockedByOthers(p) # {}

\* SELECT ... FOR UPDATE waits while another transaction holds a lock on a
\* row it selects.
MustWait(p, rows) == \E row \in rows : row.id \in LockedByOthers(p)

\* Mutant of MarkUsed: the WHERE clause matches no row (wrong key).
MarkUsedNoRow(table, ids, now) == table

\* Mutant of MarkUsed: the WHERE clause is missing, every row is updated.
MarkUsedAll(table, ids, now) ==
    { [row EXCEPT !.status = "used", !.used_at = now] : row \in table }

\* Mutant of MarkUsed: SET status = 'used' alone, used_at stays NULL.
MarkUsedNoTimestamp(table, ids, now) ==
    { IF row.id \in ids THEN [row EXCEPT !.status = "used"] ELSE row : row \in table }

\* UPDATE spin_codes SET status = 'used', used_at = NOW() WHERE id = $2.
MarkUsed(table, ids, now) ==
    { IF row.id \in ids THEN [row EXCEPT !.status = "used", !.used_at = now] ELSE row
      : row \in table }

\* codeResult.rows.length === 0
NotFound(rows) == rows = {}

\* Mutant of AlreadyUsed: the status check is missing.
AlreadyUsedNever(codeData) == FALSE

\* codeData.status === 'used'
AlreadyUsed(codeData) == codeData.status = "used"

(***************************************************************************)
(* POST /spin/play                                                         *)
(***************************************************************************)
\* The handler has returned: its locals are gone.
Finished(c, resp) ==
    [c EXCEPT !.pc = "done", !.resp = resp, !.broken = FALSE,
              !.conn = IF c.conn = "held" THEN "released" ELSE c.conn,
              !.codeData = NoRow, !.outcome = NoOutcome, !.resultInsert = NoResultRow,
              !.pending = NoResponse, !.codes = <<>>, !.i = 0, !.collided = FALSE]

\* The request arrives: await pool.connect(), await client.query('BEGIN'),
\* then the format check. Neither query reads or writes a table. The
\* connection is taken before the try block: when pool.connect() rejects,
\* the handler ends without a response.
PlayBegin(p) ==
    /\ MayStart(p)
    /\ \E code \in CodeInputs, co \in PoolOutcomes :
          LET c == [calls[p] EXCEPT !.op = "play", !.code = code,
                                    !.atStart = StatusOf(code)]
              held == [c EXCEPT !.conn = "held"]
          IN  IF co # "ok"
              THEN Put(p, Finished(c, NoResponse))
              ELSE \E qo \in QueryOutcomes(p) :
                      IF qo = "ok"
                      THEN Put(p, [held EXCEPT
                              !.tx = "open",
                              !.pc = IF ValidFormat(code) THEN "select" ELSE "rollback",
                              !.pending = IF ValidFormat(code) THEN NoResponse
                                          ELSE ErrorResponse(400, "Invalid code format")])
                      ELSE Put(p, Thrown(held, qo))
    /\ DbUnchanged

\* await client.query('SELECT ... WHERE code = $1 FOR UPDATE'), the two
\* checks on its result, and the draw. draws counts the calls of
\* selectWeightedOutcome made for this request.
PlaySelect(p) ==
    /\ calls[p].pc = "select"
    /\ \E qo \in QueryOutcomes(p) :
          /\ IF qo = "ok"
             THEN LET c == calls[p]
                      rows == RowsByCode(c.code)
                      locks == IF InTransaction(c) THEN {row.id : row \in rows} ELSE {}
                  IN  /\ ~MustWait(p, rows)
                      /\ IF NotFound(rows)
                         THEN Put(p, [c EXCEPT !.pc = "rollback",
                                      !.pending = ErrorResponse(404, "Code not found")])
                         ELSE LET row == CHOOSE r \in rows : TRUE
                                  codeData == [id |-> row.id, code |-> row.code,
                                               status |-> row.status]
                              IN  IF AlreadyUsed(codeData)
                                  THEN Put(p, [c EXCEPT !.pc = "rollback",
                                          !.locked = locks, !.codeData = codeData,
                                          !.pending = ErrorResponse(400, "Code already used")])
                                  ELSE \E random \in RandomSamples :
                                          Put(p, [c EXCEPT !.pc = "update",
                                             !.locked = locks, !.codeData = codeData,
                                             !.draws = c.draws + 1,
                                             !.outcome = selectWeightedOutcome(random)])
             ELSE Put(p, Thrown(calls[p], qo))
    /\ DbUnchanged

\* await client.query('UPDATE spin_codes SET status = $1, used_at = NOW() WHERE id = $2').
PlayUpdate(p) ==
    /\ calls[p].pc = "update"
    /\ \E qo \in QueryOutcomes(p) :
          /\ LET c == calls[p]
             IN  IF qo = "ok"
                 THEN /\ c.codeData.id \notin LockedByOthers(p)
                      /\ IF InTransaction(c)
                         THEN /\ Put(p, [c EXCEPT !.pc = "insert",
                                         !.updated = {c.codeData.id},
                                         !.locked = c.locked \cup {c.codeData.id}])
                              /\ UNCHANGED spin_codes
                         ELSE /\ Put(p, [c EXCEPT !.pc = "insert"])
                              /\ spin_codes' = MarkUsed(spin_codes, {c.codeData.id}, p)
                 ELSE /\ Put(p, Thrown(c, qo))
                      /\ UNCHANGED spin_codes
    /\ UNCHANGED <<spin_results, codes_seq, results_seq>>

\* Mutant of ResultRow: $4 is SPIN_OUTCOMES[0].weight, not outcome.weight.
ResultRowFirstOdds(c, id, now) ==
    [ id |-> id, code_id |-> c.codeData.id, outcome |-> c.outcome.prize,
      prize_cents |-> c.outcome.cents, odds |-> NumberText(SPIN_OUTCOMES[1].weight),
      created_at |-> now ]

\* The row INSERT INTO spin_results (code_id, outcome, prize_cents, odds)
\* VALUES ($1, $2, $3, $4) adds; odds is kept as the text of the NUMERIC.
ResultRow(c, id, now) ==
    [ id |-> id, code_id |-> c.codeData.id, outcome |-> c.outcome.prize,
      prize_cents |-> c.outcome.cents, odds |-> NumberText(c.outcome.weight),
      created_at |-> now ]

\* await client.query('INSERT INTO spin_results ... RETURNING ...').
PlayInsert(p) ==
    /\ calls[p].pc = "insert"
    /\ \E qo \in QueryOutcomes(p) :
          /\ LET c == calls[p]
                 row == ResultRow(c, results_seq + 1, p)
             IN  IF qo = "ok"
                 THEN /\ results_seq' = results_seq + 1
                      /\ IF InTransaction(c)
                         THEN /\ Put(p, [c EXCEPT !.pc = "commit", !.inserted = {row},
                                         !.resultInsert = row])
                              /\ UNCHANGED spin_results
                         ELSE /\ Put(p, [c EXCEPT !.pc = "commit", !.resultInsert = row])
                              /\ spin_results' = spin_results \cup {row}
                 ELSE /\ Put(p, Thrown(c, qo))
                      /\ UNCHANGED <<spin_results, results_seq>>
    /\ UNCHANGED <<spin_codes, codes_seq>>

\* Mutant of CommitThrows: the rejection of COMMIT is swallowed.
CommitThrowsNever(qo) == FALSE

\* Mutant of CommitThrows: the code after COMMIT throws.
CommitThrowsAlways(qo) == TRUE

\* await client.query('COMMIT') rejects unless the commit was done.
CommitThrows(qo) == qo # "ok"

\* res.json({ success: true, result: {...} }) built from resultInsert.rows[0].
SpinResponse(spinResult) ==
    [ status |-> 200, error |-> "", codes |-> <<>>, generated |-> 0,
      result |-> [ outcome |-> spinResult.outcome,
                   prize_cents |-> spinResult.prize_cents,
                   odds |-> parseFloat(spinResult.odds),
                   spin_id |-> spinResult.id,
                   timestamp |-> spinResult.created_at ] ]

\* await client.query('COMMIT'), the success response, and client.release().
PlayCommit(p) ==
    /\ calls[p].pc = "commit"
    /\ \E qo \in QueryOutcomes(p) :
          /\ LET c == calls[p]
                 ended == IF qo = "ok"
                          THEN [c EXCEPT !.tx = IF InTransaction(c) THEN "committed" ELSE c.tx,
                                         !.locked = {}, !.updated = {}, !.inserted = {}]
                          ELSE [Aborted(c) EXCEPT !.broken = (c.broken \/ qo = "lost")]
             IN  /\ IF qo = "ok"
                    THEN /\ spin_codes' = MarkUsed(spin_codes, c.updated, p)
                         /\ spin_results' = spin_results \cup c.inserted
                    ELSE UNCHANGED <<spin_codes, spin_results>>
                 /\ IF CommitThrows(qo)
                    THEN Put(p, [ended EXCEPT !.pc = "catch"])
                    ELSE Put(p, Finished(ended, SpinResponse(c.resultInsert)))
    /\ UNCHANGED <<codes_seq, results_seq>>

\* await client.query('ROLLBACK') of an early return, the 4xx response, and
\* client.release().
PlayRollback(p) ==
    /\ calls[p].pc = "rollback"
    /\ \E qo \in RollbackOutcomes(p) :
          /\ IF qo = "ok"
             THEN Put(p, Finished(Aborted(calls[p]), calls[p].pending))
             ELSE Put(p, Thrown(calls[p], qo))
    /\ DbUnchanged

\* The catch block: await client.query('ROLLBACK'), the 500 response, and
\* client.release(). When this ROLLBACK rejects, the handler's promise
\* rejects after the finally block and no response is sent.
PlayCatch(p) ==
    /\ calls[p].pc = "catch"
    /\ \E qo \in RollbackOutcomes(p) :
          /\ IF qo = "ok"
             THEN Put(p, Finished(Aborted(calls[p]), ErrorResponse(500, "Spin failed")))
             ELSE Put(p, Finished([Aborted(calls[p]) EXCEPT !.broken = TRUE], NoResponse))
    /\ DbUnchanged

(***************************************************************************)
(* POST /spin/verify                                                       *)
(***************************************************************************)
\* Mutant of VerifyResponse: the status of the row is not looked at.
VerifyResponseNoStatus(rows) ==
    IF rows = {} THEN ErrorResponse(404, "Code not found") ELSE ErrorResponse(200, "")

\* The response to the rows of SELECT id, code, status FROM spin_codes
\* WHERE code = $1.
VerifyResponse(rows) ==
    IF NotFound(rows) THEN ErrorResponse(404, "Code not found")
    ELSE IF AlreadyUsed(CHOOSE row \in rows : TRUE)
         THEN ErrorResponse(400, "Code already used")
         ELSE ErrorResponse(200, "")

\* Mutant of Verify: the lookup is UPDATE spin_codes SET status = 'used'
\* WHERE code = $1 RETURNING id, code, status, which consumes the code.
VerifyConsumes(p) ==
    /\ MayStart(p)
    /\ \E code \in CodeInputs :
          LET c == [calls[p] EXCEPT !.op = "verify", !.code = code,
                                    !.atStart = StatusOf(code)]
          IN  /\ Put(p, Finished(c, IF ValidFormat(code)
                                    THEN VerifyResponse(RowsByCode(code))
                                    ELSE ErrorResponse(400, "Invalid code format")))
              /\ spin_codes' = IF ValidFormat(code)
                               THEN MarkUsed(spin_codes, {row.id : row \in RowsByCode(code)}, p)
                               ELSE spin_codes
    /\ UNCHANGED <<spin_results, codes_seq, results_seq>>

\* The whole handler: the format check, then for a well-formed code the one
\* query await pool.query('SELECT id, code, status FROM spin_codes WHERE
\* code = $1') and the response to its rows, or to its failure.
Verify(p) ==
    /\ MayStart(p)
    /\ \E code \in CodeInputs, qo \in PoolOutcomes :
          LET c == [calls[p] EXCEPT !.op = "verify", !.code = code,
                                    !.atStart = StatusOf(code)]
          IN  IF ~ValidFormat(code)
              THEN Put(p, Finished(c, ErrorResponse(400, "Invalid code format")))
              ELSE IF qo = "ok"
                   THEN Put(p, Finished(c, VerifyResponse(RowsByCode(code))))
                   ELSE Put(p, Finished(c, ErrorResponse(500, "Verification failed")))
    /\ DbUnchanged

(***************************************************************************)
(* POST /admin/generate                                                    *)
(***************************************************************************)
\* Math.min(count, 100)
MaxCodesPerRequest == 100

\* Mutant of Min: the request's count is taken as it is.
MinNoClamp(a, b) == a

Min(a, b) == IF a < b THEN a ELSE b

\* Mutant of InsertSpinCode: ON CONFLICT (code) DO UPDATE resets the row.
InsertSpinCodeUpsert(code, id, now) ==
    [violation |-> FALSE,
     table |-> {row \in spin_codes : row.code # code} \cup
               {[id |-> id, code |-> code, status |-> "unused",
                 created_at |-> now, used_at |-> 0]}]

\* Mutant of InsertSpinCode: the column code has no UNIQUE constraint.
InsertSpinCodeNoUnique(code, id, now) ==
    [violation |-> FALSE,
     table |-> spin_codes \cup
               {[id |-> id, code |-> code, status |-> "unused",
                 created_at |-> now, used_at |-> 0]}]

\* INSERT INTO spin_codes (code) VALUES ($1): the UNIQUE constraint on code
\* rejects a duplicate (error 23505); status, created_at and used_at take
\* their defaults.
InsertSpinCode(code, id, now) ==
    IF RowsByCode(code) # {}
    THEN [violation |-> TRUE, table |-> spin_codes]
    ELSE [violation |-> FALSE,
          table |-> spin_codes \cup
                    {[id |-> id, code |-> code, status |-> "unused",
                      created_at |-> now, used_at |-> 0]}]

\* res.json({ success: true, codes, generated: codes.length })
GenerateResponse(codes) ==
    [status |-> 200, error |-> "", result |-> NoResult, codes |-> codes,
     generated |-> Len(codes)]

\* Mutant of AfterConflict: continue without i--, the slot is used up.
AfterConflictSkipsSlot(c) == [c EXCEPT !.collided = TRUE, !.i = c.i + 1]

\* dbError.code === '23505': i-- and continue, so that after the loop's i++
\* the same slot is tried again; codes is as it was.
AfterConflict(c) == [c EXCEPT !.collided = TRUE]

\* The handler body entered with the request c0: the loop starts with i = 0.
GenerateFrom(p, c0) ==
    /\ \E count \in CountInputs :
          LET c == [c0 EXCEPT !.op = "generate", !.count = count, !.i = 0]
          IN  IF 0 < Min(count, MaxCodesPerRequest)
              THEN Put(p, [c EXCEPT !.pc = "insert_code"])
              ELSE Put(p, Finished(c, GenerateResponse(<<>>)))
    /\ DbUnchanged

\* The request arrives at app.post('/admin/generate', async ...).
StartGenerate(p) == MayStart(p) /\ GenerateFrom(p, calls[p])

\* One iteration of the loop: generateSpinCode(), await pool.query('INSERT
\* INTO spin_codes ...'), then push, retry (23505: i-- and continue, which
\* leaves i and codes as they were) or throw. codes_seq counts the ids given
\* to inserted rows; collided records that the slot in hand has been
\* through the 23505 branch.
GenerateInsert(p) ==
    /\ calls[p].pc = "insert_code"
    /\ \E u \in 0 .. GenRange - 1, qo \in PoolOutcomes :
          /\ LET c == calls[p]
                 code == generateSpinCode(u)
                 ins == InsertSpinCode(code, codes_seq + 1, p)
                 pushed == Append(c.codes, [id |-> codes_seq + 1, code |-> code,
                                            created_at |-> p])
             IN  IF qo # "ok"
                 THEN /\ Put(p, Finished(c, ErrorResponse(500, "Failed to generate codes")))
                      /\ UNCHANGED <<spin_codes, codes_seq>>
                 ELSE /\ spin_codes' = ins.table
                      /\ IF ins.violation
                         THEN /\ Put(p, AfterConflict(c))
                              /\ UNCHANGED codes_seq
                         ELSE /\ codes_seq' = codes_seq + 1
                              /\ IF c.i + 1 < Min(c.count, MaxCodesPerRequest)
                                 THEN Put(p, [c EXCEPT !.i = c.i + 1, !.codes = pushed,
                                                       !.collided = FALSE])
                                 ELSE Put(p, Finished(c, GenerateResponse(pushed)))
    /\ UNCHANGED <<spin_results, results_seq>>

(***************************************************************************)
(* GET /admin/codes and GET /admin/results                                 *)
(***************************************************************************)
\* res.json({ success: true, codes: result.rows }) or ({ success: true,
\* results: result.rows, total, ... }): the number of rows is kept.
ListResponse(rows) ==
    [status |-> 200, error |-> "", result |-> NoResult, codes |-> <<>>,
     generated |-> Cardinality(rows)]

\* SELECT ... FROM spin_codes sc LEFT JOIN spin_results sr ON sc.id =
\* sr.code_id: one row per code and outcome, one row for a code without.
CodesJoinResults ==
    LET joined == {pair \in spin_codes \X spin_results : pair[2].code_id = pair[1].id}
        alone == {row \in spin_codes : ResultsOf(row.id) = {}}
    IN  joined \cup (alone \X {NoResultRow})

\* The whole handler body of GET /admin/codes, entered with the request
\* c0: one SELECT, then the response.
CodesFrom(p, c0) ==
    /\ \E qo \in PoolOutcomes :
          LET c == [c0 EXCEPT !.op = "codes"]
          IN  IF qo = "ok"
              THEN Put(p, Finished(c, ListResponse(CodesJoinResults)))
              ELSE Put(p, Finished(c, ErrorResponse(500, "Failed to fetch codes")))
    /\ DbUnchanged

\* The request arrives at app.get('/admin/codes', async ...).
AdminCodes(p) == MayStart(p) /\ CodesFrom(p, calls[p])

\* Mutant of AdminResults: the rows are taken out of the table as they are
\* listed (DELETE FROM spin_results RETURNING *).
AdminResultsPurges(p) ==
    /\ MayStart(p)
    /\ Put(p, Finished([calls[p] EXCEPT !.op = "results"], ListResponse(spin_results)))
    /\ spin_results' = {}
    /\ UNCHANGED <<spin_codes, codes_seq, results_seq>>

\* The whole handler body of GET /admin/results with the default limit and
\* offset, entered with the request c0: the SELECT of the rows, the SELECT
\* COUNT(*), then the response.
ResultsFrom(p, c0) ==
    /\ \E qo \in PoolOutcomes :
          LET c == [c0 EXCEPT !.op = "results"]
          IN  IF qo = "ok"
              THEN Put(p, Finished(c, ListResponse(spin_results)))
              ELSE Put(p, Finished(c, ErrorResponse(500, "Failed to fetch results")))
    /\ DbUnchanged

\* The request arrives at app.get('/admin/results', async ...).
AdminResults(p) == MayStart(p) /\ ResultsFrom(p, calls[p])

(***************************************************************************)
(* Specification.                                                          *)
(***************************************************************************)
Next ==
    \E p \in Calls :
        \/ PlayBegin(p)
        \/ PlaySelect(p)
        \/ PlayUpdate(p)
        \/ PlayInsert(p)
        \/ PlayCommit(p)
        \/ PlayRollback(p)
        \/ PlayCatch(p)
        \/ Verify(p)
        \/ StartGenerate(p)
        \/ GenerateInsert(p)
        \/ AdminCodes(p)
        \/ AdminResults(p)

Spec == Init /\ [][Next]_vars

\* A database that initializeDatabase has just created: both tables empty.
InitFresh ==
    /\ spin_codes = {}
    /\ codes_seq = 0
    /\ spin_results = {}
    /\ results_seq = 0
    /\ calls = [p \in Calls |-> IdleCall]
    /\ sessions = {}
    /\ clock = 0

SpecFresh == InitFresh /\ [][Next]_vars

\* The tables after a POST /admin/generate with count 2 on a fresh database
\* returned 10000 and 10001, before the server was restarted: two unused
\* codes issued together.
IssuedTogether ==
    { [id |-> n + 1, code |-> generateSpinCode(n), status |-> "unused",
       created_at |-> 0, used_at |-> 0] : n \in {0, 1} }

InitTwoCodes ==
    /\ spin_codes = IssuedTogether
    /\ codes_seq = 2
    /\ spin_results = {}
    /\ results_seq = 0
    /\ calls = [p \in Calls |-> IdleCall]
    /\ sessions = {}
    /\ clock = 0

SpecTwoCodes == InitTwoCodes /\ [][Next]_vars

(***************************************************************************)
(* selectWeightedOutcome() on its own: calls of the function, one after    *)
(* the other (it is synchronous), with Math.random() ranging over the      *)
(* whole grid.                                                             *)
(***************************************************************************)
\* const random = Math.random()
DrawRandom(p) ==
    /\ MayStart(p)
    /\ \A q \in Calls : calls[q].pc # "walk"
    /\ \E random \in RandomValues :
          Put(p, [calls[p] EXCEPT !.op = "draw", !.pc = "walk", !.random = random])
    /\ DbUnchanged

\* The loop over SPIN_OUTCOMES and the return; the local random is gone,
\* outcome keeps the value returned to the caller.
DrawWalk(p) ==
    /\ calls[p].pc = "walk"
    /\ Put(p, [calls[p] EXCEPT !.pc = "done", !.random = NoRandom,
                               !.draws = calls[p].draws + 1,
                               !.outcome = selectWeightedOutcome(calls[p].random)])
    /\ DbUnchanged

NextDraw == \E p \in Calls : DrawRandom(p) \/ DrawWalk(p)

SpecDraw == InitFresh /\ [][NextDraw]_vars

(***************************************************************************)
(* The admin routes of server.js that touch no table: POST /admin/login    *)
(* and POST /admin/logout ("no real auth", "simplified").                  *)
(***************************************************************************)
\* Request bodies tried for username and password: the field absent (or
\* empty), the configured value, another value.
UsernameInputs == {"", "admin", "root"}

PasswordInputs == {"", "changeme", "guess"}

\* res.json({ success: true, ... }) without data.
SuccessResponse == ErrorResponse(200, "")

\* The whole handler of POST /admin/login in server.js: the body is not
\* read, the response is success and carries no token.
AdminLogin(p) ==
    /\ MayStart(p)
    /\ \E username \in UsernameInputs, password \in PasswordInputs :
          Put(p, Finished([calls[p] EXCEPT !.op = "login", !.username = username,
                                          !.password = password],
                          SuccessResponse))
    /\ DbUnchanged

\* The whole handler of POST /admin/logout in server.js.
AdminLogout(p) ==
    /\ MayStart(p)
    /\ Put(p, Finished([calls[p] EXCEPT !.op = "logout"], SuccessResponse))
    /\ DbUnchanged

\* The admin routes of server.js, requests without Authorization header.
NextOpen ==
    \E p \in Calls :
        \/ AdminLogin(p)
        \/ AdminLogout(p)
        \/ StartGenerate(p)
        \/ GenerateInsert(p)
        \/ AdminCodes(p)
        \/ AdminResults(p)

SpecOpen == Init /\ [][NextOpen]_vars

(***************************************************************************)
(* The session-keeping server (src/unnamed/part_000): the same routes,     *)
(* with the admin routes behind requireAuth and sessions kept in a Map.    *)
(***************************************************************************)
\* Time is counted in units of twelve hours; the clock stops at MaxClock.
MaxClock == 3

ADMIN_USERNAME == "admin"

ADMIN_PASSWORD == "changeme"

\* 24 * 60 * 60 * 1000 milliseconds.
SessionLifetime == 2

\* The Map after one login at time 0, which returned token 1.
LoggedInBefore ==
    { [token |-> 1, username |-> ADMIN_USERNAME, expires |-> SessionLifetime,
       createdAt |-> 0] }

\* The tokens login responses have carried so far.
GrantedTokens ==
    ({s.token : s \in LoggedInBefore} \cup {calls[q].granted : q \in Calls}) \ {NoToken}

\* crypto.randomBytes(32).toString('hex'): 256 random bits, modelled as a
\* value that no earlier call returned.
generateSessionToken == 1 + Cardinality(GrantedTokens)

\* A token that no login returned.
ForgedToken == -1

\* Authorization headers tried: none, and a token with or without the
\* prefix 'Bearer '.
NoHeader == [scheme |-> "", credentials |-> NoToken]

HeaderInputs ==
    {NoHeader} \cup
    [scheme : {"Bearer ", ""}, credentials : GrantedTokens \cup {ForgedToken}]

\* req.headers.authorization?.replace('Bearer ', '')
TokenOf(header) == header.credentials

\* The entries of the Map under this key (at most one).
SessionsWith(token) == {s \in sessions : s.token = token}

\* sessions.set(sessionToken, {...})
SessionSet(token, session) == (sessions \ SessionsWith(token)) \cup {session}

\* Mutant of SessionDelete: nothing is deleted.
SessionDeleteNothing(token) == sessions

\* sessions.delete(sessionToken)
SessionDelete(token) == sessions \ SessionsWith(token)

\* Mutant of AuthResult: the test is Date.now() >= session.expires.
AuthResultExpiresEarly(token) ==
    IF token = NoToken \/ SessionsWith(token) = {} THEN "unauthorized"
    ELSE IF clock >= (CHOOSE s \in SessionsWith(token) : TRUE).expires THEN "expired"
    ELSE "ok"

\* The two tests of requireAuth: !sessionToken || !sessions.has(sessionToken),
\* then Date.now() > session.expires.
AuthResult(token) ==
    IF token = NoToken \/ SessionsWith(token) = {} THEN "unauthorized"
    ELSE IF clock > (CHOOSE s \in SessionsWith(token) : TRUE).expires THEN "expired"
    ELSE "ok"

\* The request as requireAuth sees it: the route and the x-session-token
\* header.
Arriving(p, op, header) == [calls[p] EXCEPT !.op = op, !.token = TokenOf(header)]

\* The middleware in front of a route: a request it rejects is answered 401
\* and never reaches the handler; an expired session is deleted; otherwise
\* next() runs the handler body, the step next, in the same step.
requireAuth(p, op, header, next) ==
    LET token == TokenOf(header)
        c0 == Arriving(p, op, header)
    IN  IF AuthResult(token) = "unauthorized"
        THEN /\ calls' = [calls EXCEPT ![p] = Finished(c0, ErrorResponse(401, "Unauthorized"))]
             /\ UNCHANGED <<sessions, clock>>
             /\ DbUnchanged
        ELSE IF AuthResult(token) = "expired"
        THEN /\ calls' = [calls EXCEPT ![p] = Finished(c0, ErrorResponse(401, "Session expired"))]
             /\ sessions' = SessionDelete(token)
             /\ UNCHANGED clock
             /\ DbUnchanged
        ELSE next

\* username !== ADMIN_USERNAME || password !== ADMIN_PASSWORD, negated.
CredentialsMatch(username, password) ==
    username = ADMIN_USERNAME /\ password = ADMIN_PASSWORD

\* The whole handler of POST /admin/login: the two checks, then the new
\* session and the response with its token (kept in granted).
SessionLogin(p) ==
    /\ MayStart(p)
    /\ \E username \in UsernameInputs, password \in PasswordInputs :
          LET c == [calls[p] EXCEPT !.op = "login", !.username = username,
                                    !.password = password]
              sessionToken == generateSessionToken
          IN  IF username = "" \/ password = ""
              THEN /\ calls' = [calls EXCEPT ![p] =
                          Finished(c, ErrorResponse(400, "Username and password required"))]
                   /\ UNCHANGED sessions
              ELSE IF ~CredentialsMatch(username, password)
              THEN /\ calls' = [calls EXCEPT ![p] =
                          Finished(c, ErrorResponse(401, "Invalid credentials"))]
                   /\ UNCHANGED sessions
              ELSE /\ sessions' = SessionSet(sessionToken,
                          [token |-> sessionToken, username |-> ADMIN_USERNAME,
                           expires |-> clock + SessionLifetime, createdAt |-> clock])
                   /\ calls' = [calls EXCEPT ![p] =
                          Finished([c EXCEPT !.granted = sessionToken], SuccessResponse)]
    /\ UNCHANGED clock
    /\ DbUnchanged

\* The handler body of POST /admin/logout behind requireAuth.
LogoutFrom(p, c0) ==
    /\ sessions' = SessionDelete(c0.token)
    /\ calls' = [calls EXCEPT ![p] = Finished(c0, SuccessResponse)]
    /\ UNCHANGED clock
    /\ DbUnchanged

SessionLogout(p) ==
    /\ MayStart(p)
    /\ \E header \in HeaderInputs : 
          requireAuth(p, "logout", header, LogoutFrom(p, Arriving(p, "logout", header)))

\* app.post('/admin/generate', requireAuth, async ...)
SessionGenerate(p) ==
    /\ MayStart(p)
    /\ \E header \in HeaderInputs : 
          requireAuth(p, "generate", header, GenerateFrom(p, Arriving(p, "generate", header)))

\* app.get('/admin/codes', requireAuth, async ...)
SessionCodes(p) ==
    /\ MayStart(p)
    /\ \E header \in HeaderInputs : 
          requireAuth(p, "codes", header, CodesFrom(p, Arriving(p, "codes", header)))

\* app.get('/admin/results', requireAuth, async ...)
SessionResults(p) ==
    /\ MayStart(p)
    /\ \E header \in HeaderInputs : 
          requireAuth(p, "results", header, ResultsFrom(p, Arriving(p, "results", header)))

\* Time passes.
Tick ==
    /\ clock < MaxClock
    /\ clock' = clock + 1
    /\ UNCHANGED <<spin_codes, spin_results, codes_seq, results_seq, calls, sessions>>

NextAuth ==
    \/ Tick
    \/ \E p \in Calls :
          \/ SessionLogin(p)
          \/ SessionLogout(p)
          \/ SessionGenerate(p)
          \/ GenerateInsert(p)
          \/ SessionCodes(p)
          \/ SessionResults(p)

\* The server has been up since time 0 and has answered one login.
InitAuth ==
    /\ spin_codes = IssuedBefore
    /\ codes_seq = 1
    /\ spin_results = {}
    /\ results_seq = 0
    /\ calls = [p \in Calls |-> IdleCall]
    /\ sessions = LoggedInBefore
    /\ clock = 0

SpecAuth == InitAuth /\ [][NextAuth]_vars

(***************************************************************************)
(* POST /spin/play on its own, under fair scheduling: a request that has   *)
(* been sent arrives, and a query that has been sent returns or fails.     *)
(***************************************************************************)
NextPlay ==
    \E p \in Calls :
        \/ PlayBegin(p)
        \/ PlaySelect(p)
        \/ PlayUpdate(p)
        \/ PlayInsert(p)
        \/ PlayCommit(p)
        \/ PlayRollback(p)
        \/ PlayCatch(p)

\* A query that has been sent returns or fails; the SELECT ... FOR UPDATE
\* returns its rows once no other transaction holds the row lock. Nothing
\* obliges a request to be sent, nor a connection to fail.
PlaySelectReturns(p) == PlaySelect(p) /\ calls'[p].pc \in {"update", "rollback"}

\* The next query of a redeem call that holds a connection. A call is at
\* one statement at a time, so fairness of this step is fairness of each
\* of its queries.
PlayQuery(p) ==
    \/ PlaySelectReturns(p)
    \/ PlayUpdate(p)
    \/ PlayInsert(p)
    \/ PlayCommit(p)
    \/ PlayRollback(p)
    \/ PlayCatch(p)

FairPlay == \A p \in Calls : WF_vars(PlayQuery(p))

SpecPlayFair == Init /\ [][NextPlay]_vars /\ FairPlay

TypeOK ==
    /\ codes_seq \in Nat /\ results_seq \in Nat
    /\ \A p \in Calls : calls[p].pc \in
          {"idle", "select", "update", "insert", "commit",
           "rollback", "catch", "insert_code", "walk", "done"}

(***************************************************************************)
(* Vocabulary of the properties.                                           *)
(***************************************************************************)
\* The committed Code rows with this value, read from the table directly.
CodeRows(code) == {row \in spin_codes : row.code = code}

\* The committed RedemptionOutcome rows of a Code row.
OutcomeRows(row) == {res \in spin_results : res.code_id = row.id}

PlayCalls == {p \in Calls : calls[p].op = "play"}

Done(p) == calls[p].pc = "done"

Succeeded(p) == calls[p].op = "play" /\ calls[p].resp.status = 200

RepliedInvalidFormat(p) == calls[p].resp = ErrorResponse(400, "Invalid code format")

RepliedNotFound(p) == calls[p].resp = ErrorResponse(404, "Code not found")

RepliedAlreadyUsed(p) == calls[p].resp = ErrorResponse(400, "Code already used")

\* The call met a storage failure: a 500 response, or no response at all.
StorageFailed(p) == Done(p) /\ calls[p].resp.status \in {0, 500}

\* A Code row is consistent: USED exactly when it has an outcome row.
Consistent(row) == (row.status = "used") <=> (OutcomeRows(row) # {})

(***************************************************************************)
(* C1. Redeem calls on one code value that run concurrently (each began    *)
(* while the code was UNUSED): never more than one of them succeeds, the   *)
(* code has exactly as many outcome rows as successes, and once all of     *)
(* them have returned without a storage failure exactly one has succeeded  *)
(* and every other one has answered AlreadyUsed.                           *)
(***************************************************************************)
ExactlyOneRedeemSucceeds ==
    \A code \in CodeInputs :
        LET plays == {p \in PlayCalls : calls[p].code = code}
            racing == {p \in plays : calls[p].atStart = "unused"}
            won == {p \in plays : Succeeded(p)}
        IN  /\ Cardinality(won) <= 1
            /\ \A row \in CodeRows(code) : Cardinality(OutcomeRows(row)) = Cardinality(won)
            /\ ( /\ Cardinality(racing) >= 2
                 /\ \A p \in racing : Done(p) /\ ~StorageFailed(p) )
               => /\ Cardinality(won) = 1
                  /\ won \subseteq racing
                  /\ \A p \in racing \ won : RepliedAlreadyUsed(p)

\* Two redeems of one code raced; one won, the other was told AlreadyUsed.
RaceWitness ==
    \E p, q \in PlayCalls :
        /\ p # q
        /\ calls[p].code = calls[q].code
        /\ calls[p].atStart = "unused" /\ calls[q].atStart = "unused"
        /\ Succeeded(p)
        /\ RepliedAlreadyUsed(q)

(***************************************************************************)
(* C2. In every committed state a Code row is USED if and only if an       *)
(* outcome row references it, and every outcome row references a Code row. *)
(***************************************************************************)
OutcomeIffUsed ==
    /\ \A row \in spin_codes : Consistent(row)
    /\ \A res \in spin_results : \E row \in spin_codes : row.id = res.code_id

\* A code is USED with its outcome while another is still UNUSED without one.
UsedAndUnusedWitness ==
    /\ \E row \in spin_codes : row.status = "used" /\ OutcomeRows(row) # {}
    /\ \E row \in spin_codes : row.status = "unused" /\ OutcomeRows(row) = {}

(***************************************************************************)
(* C3. No Code row is referenced by more than one outcome row, counting    *)
(* the rows inserted by transactions that have not committed yet.          *)
(***************************************************************************)
AtMostOneOutcomePerCode ==
    \A row \in spin_codes :
        Cardinality({res \in spin_results \cup UNION {calls[p].inserted : p \in Calls} :
                        res.code_id = row.id}) <= 1

\* A redeem has inserted its outcome row and not committed yet, while another
\* redeem of the same code waits at its SELECT ... FOR UPDATE.
PendingInsertWitness ==
    \E p, q \in PlayCalls :
        /\ p # q
        /\ calls[p].code = calls[q].code
        /\ calls[p].inserted # {}
        /\ calls[q].pc = "select"

(***************************************************************************)
(* C4. A redeem whose try block threw (it is in the catch block, or has    *)
(* returned with a storage failure) has none of its writes committed or    *)
(* left to commit, its code row is USED exactly when it has an outcome,    *)
(* and once it has returned its transaction is over and holds no lock.     *)
(***************************************************************************)
FailedRedeemRolledBack ==
    \A p \in PlayCalls :
        (calls[p].pc = "catch" \/ StorageFailed(p))
        => /\ calls[p].updated = {} /\ calls[p].inserted = {}
           /\ calls[p].tx # "committed"
           /\ \A row \in CodeRows(calls[p].code) : Consistent(row)
           /\ Done(p) => calls[p].tx = "none" /\ calls[p].locked = {}

\* A redeem failed after its draw (it still holds the row lock it took for
\* the UPDATE) and is about to roll back.
FailedAfterDrawWitness ==
    \E p \in PlayCalls : calls[p].pc = "catch" /\ calls[p].locked # {}

(***************************************************************************)
(* C5. A redeem that reports a failure has changed nothing: a step that    *)
(* changes an existing Code row, or the outcome rows, is the last step of  *)
(* a redeem of that code which answers success in that very step; and a    *)
(* redeem that has returned without success keeps no transaction, no lock  *)
(* and no pending write, so the code stays redeemable.                     *)
(***************************************************************************)
FailedRedeemChangesNothing ==
    /\ [][ \A row \in spin_codes :
              (row \notin spin_codes' \/ OutcomeRows(row)' # OutcomeRows(row))
              => \E p \in Calls :
                    /\ ~Done(p)
                    /\ Done(p)'
                    /\ Succeeded(p)'
                    /\ calls'[p].code = row.code ]_vars
    /\ [](\A p \in PlayCalls :
             (Done(p) /\ ~Succeeded(p))
             => /\ calls[p].tx = "none"
                /\ calls[p].locked = {}
                /\ calls[p].updated = {} /\ calls[p].inserted = {})

\* A redeem of an UNUSED code answered 500, and another redeem of the same
\* code has succeeded.
RetryAfterFailureWitness ==
    \E p, q \in PlayCalls :
        /\ calls[p].code = calls[q].code
        /\ calls[p].atStart = "unused"
        /\ Done(p) /\ calls[p].resp = ErrorResponse(500, "Spin failed")
        /\ Succeeded(q)

(***************************************************************************)
(* C6. USED is terminal: a Code row that is USED is the same row, still    *)
(* USED and with the same used_at, after every step.                       *)
(***************************************************************************)
UsedIsTerminal ==
    [][ \A row \in spin_codes : row.status = "used" => row \in spin_codes' ]_vars

\* A verify of a USED code has returned and the code is still USED.
VerifyAfterUseWitness ==
    \E p \in Calls, row \in spin_codes :
        /\ calls[p].op = "verify" /\ Done(p)
        /\ calls[p].atStart = "used"
        /\ row.code = calls[p].code /\ row.status = "used"

(***************************************************************************)
(* C7. A verify or a redeem that begins when the code is already USED      *)
(* answers AlreadyUsed, unless that call itself meets a storage failure,   *)
(* and the code keeps its single outcome row.                              *)
(***************************************************************************)
LaterCallsSeeAlreadyUsed ==
    \A p \in Calls :
        (Done(p) /\ calls[p].atStart = "used")
        => /\ RepliedAlreadyUsed(p) \/ StorageFailed(p)
           /\ \A row \in CodeRows(calls[p].code) : Cardinality(OutcomeRows(row)) = 1

\* A redeem of an already redeemed code was answered AlreadyUsed.
RedeemAfterUseWitness ==
    \E p \in PlayCalls : calls[p].atStart = "used" /\ RepliedAlreadyUsed(p)

(***************************************************************************)
(* C8. A redeem of a well-formed value that has no Code row answers        *)
(* NotFound (or meets a storage failure), commits nothing, and none of its *)
(* steps changes a table or a sequence.                                    *)
(***************************************************************************)
RedeemOfAbsentCode ==
    /\ [](\A p \in PlayCalls :
             (Done(p) /\ ValidFormat(calls[p].code) /\ CodeRows(calls[p].code) = {})
             => /\ RepliedNotFound(p) \/ StorageFailed(p)
                /\ calls[p].tx = "none")
    /\ [][ \A p \in Calls :
              ( /\ calls'[p] # calls[p]
                /\ calls'[p].op = "play"
                /\ ValidFormat(calls'[p].code)
                /\ \A row \in spin_codes' : row.code # calls'[p].code )
              => UNCHANGED <<spin_codes, spin_results, codes_seq, results_seq>> ]_vars

\* A redeem of a well-formed value without a Code row was answered NotFound.
NotFoundWitness ==
    \E p \in PlayCalls :
        /\ ValidFormat(calls[p].code)
        /\ CodeRows(calls[p].code) = {}
        /\ RepliedNotFound(p)

(***************************************************************************)
(* C9. A redeem of a malformed value answers InvalidFormat without         *)
(* touching storage: it never holds a connection or a transaction, and     *)
(* once it has returned its answer is InvalidFormat.                       *)
(***************************************************************************)
MalformedRedeemTouchesNoStorage ==
    \A p \in PlayCalls :
        ~ValidFormat(calls[p].code)
        => /\ calls[p].conn = "none"
           /\ calls[p].tx = "none"
           /\ Done(p) => RepliedInvalidFormat(p)

(***************************************************************************)
(* C10. A redeem that answered success has committed: its code is USED and *)
(* the outcome row named in the answer is stored with the label, prize     *)
(* value and weight of the answer, which are those of one configured tier. *)
(***************************************************************************)
SuccessMeansCommitted ==
    \A p \in PlayCalls :
        Succeeded(p)
        => /\ calls[p].tx = "committed"
           /\ \E row \in CodeRows(calls[p].code), res \in spin_results :
                 /\ row.status = "used"
                 /\ res.code_id = row.id
                 /\ res.id = calls[p].resp.result.spin_id
                 /\ res.outcome = calls[p].resp.result.outcome
                 /\ res.prize_cents = calls[p].resp.result.prize_cents
                 /\ res.odds = NumberText(calls[p].resp.result.odds)
                 /\ \E n \in 1 .. Len(SPIN_OUTCOMES) :
                       /\ SPIN_OUTCOMES[n].prize = res.outcome
                       /\ SPIN_OUTCOMES[n].cents = res.prize_cents
                       /\ SPIN_OUTCOMES[n].weight = calls[p].resp.result.odds

\* A redeem has answered success.
SuccessWitness == \E p \in PlayCalls : Done(p) /\ Succeeded(p)

(***************************************************************************)
(* C11. A redeem call draws at most once. The draw happens in a step in    *)
(* which the call holds the lock on the Code row of its value and that row *)
(* is UNUSED in the committed table; a redeem that answered InvalidFormat, *)
(* NotFound or AlreadyUsed has drawn nothing; a call that has returned     *)
(* never runs again.                                                       *)
(***************************************************************************)
DrawOnceAfterLock ==
    /\ [](\A p \in Calls :
             /\ calls[p].draws <= 1
             /\ calls[p].op # "play" => calls[p].draws = 0
             /\ (RepliedInvalidFormat(p) \/ RepliedNotFound(p) \/ RepliedAlreadyUsed(p))
                => calls[p].draws = 0)
    /\ [][ \A p \in Calls :
              /\ calls'[p].draws # calls[p].draws
                 => /\ calls[p].draws = 0 /\ calls'[p].draws = 1
                    /\ calls[p].tx = "open"
                    /\ \E row \in spin_codes :
                          /\ row.code = calls'[p].code
                          /\ row.status = "unused"
                          /\ row.id \in calls'[p].locked
                          /\ row.id \notin LockedByOthers(p)
              /\ Done(p) => calls'[p] = calls[p] ]_vars

\* One redeem drew once and succeeded; a later redeem of the same code was
\* answered AlreadyUsed without a draw.
DrawWitness ==
    \E p, q \in PlayCalls :
        /\ calls[p].draws = 1 /\ Succeeded(p)
        /\ calls[q].code = calls[p].code
        /\ RepliedAlreadyUsed(q) /\ calls[q].draws = 0

(***************************************************************************)
(* C12. Redeems of different codes are independent. A redeem that is the   *)
(* only one of its code finds none of its rows locked by another call, so  *)
(* neither its SELECT ... FOR UPDATE nor its UPDATE waits; if its code was *)
(* UNUSED it succeeds unless it meets a storage failure; and no step of a  *)
(* redeem changes a Code row of another value or that row's outcomes.      *)
(***************************************************************************)
DifferentCodesIndependent ==
    /\ [](\A p \in PlayCalls :
             (\A q \in PlayCalls \ {p} : calls[q].code # calls[p].code)
             => /\ \A row \in CodeRows(calls[p].code) : row.id \notin LockedByOthers(p)
                /\ calls[p].pc = "select" => ~MustWait(p, CodeRows(calls[p].code))
                /\ calls[p].pc = "update" => calls[p].codeData.id \notin LockedByOthers(p)
                /\ (Done(p) /\ calls[p].atStart = "unused")
                   => Succeeded(p) \/ StorageFailed(p))
    /\ [][ \A p \in Calls :
              (calls'[p] # calls[p] /\ calls'[p].op = "play")
              => \A row \in spin_codes :
                    row.code # calls'[p].code
                    => /\ row \in spin_codes'
                       /\ OutcomeRows(row)' = OutcomeRows(row) ]_vars

\* Two redeems of different codes hold their row locks at the same time:
\* one has drawn and is about to update, the other is about to commit.
BothLockedWitness ==
    \E p, q \in PlayCalls :
        /\ calls[p].code # calls[q].code
        /\ calls[p].locked # {} /\ calls[q].locked # {}
        /\ calls[p].pc = "update" /\ calls[q].pc = "commit"

(***************************************************************************)
(* C13. No two Code rows have the same value, and no two the same id,      *)
(* whatever their status and however the issue calls interleave.           *)
(***************************************************************************)
CodeValuesUnique ==
    \A r1, r2 \in spin_codes :
        (r1.code = r2.code \/ r1.id = r2.id) => r1 = r2

GenerateCalls == {p \in Calls : calls[p].op = "generate"}

\* Two issue calls are in their loops on a store that was empty: one has
\* inserted a code, the other generated the same value and was refused.
ConcurrentCollisionWitness ==
    \E p, q \in GenerateCalls :
        /\ p # q
        /\ calls[p].pc = "insert_code" /\ calls[q].pc = "insert_code"
        /\ Len(calls[p].codes) = 1 /\ ~calls[p].collided
        /\ calls[q].codes = <<>> /\ calls[q].collided
        /\ Cardinality(spin_codes) = 1

(***************************************************************************)
(* C14. An issue call creates at most 100 codes: the bound of its loop is  *)
(* count, or 100 if count is larger, its counter stays below that bound,   *)
(* and the rows it has created are as many as the counter says. When it    *)
(* answers success it returns count codes (100 at most) with pairwise      *)
(* distinct values, each of them a row it created, and generated is their  *)
(* number.                                                                 *)
(***************************************************************************)
\* The rows of spin_codes inserted by call p (created_at is the call's number).
CreatedBy(p) == {row \in spin_codes : row.created_at = p}

\* Counts at which the bound of the loop is compared with the limit: the
\* counts the calls are made with, and counts at and beyond the limit.
CountProbes == CountInputs \cup {99, 100, 101, 1000}

ConflictIsInvisible ==
    [][ \A p \in Calls :
           /\ (calls'[p].collided /\ ~calls[p].collided)
              => /\ UNCHANGED <<spin_codes, spin_results, codes_seq, results_seq>>
                 /\ calls'[p].pc = "insert_code" /\ calls[p].pc = "insert_code"
                 /\ calls'[p].i = calls[p].i
                 /\ calls'[p].codes = calls[p].codes
                 /\ calls'[p].resp = NoResponse
           /\ (calls[p].collided /\ calls'[p] # calls[p])
              => \/ /\ calls'[p].resp = ErrorResponse(500, "Failed to generate codes")
                    /\ UNCHANGED <<spin_codes, spin_results, codes_seq, results_seq>>
                 \/ LET after == IF Done(p)' THEN calls'[p].resp.codes ELSE calls'[p].codes
                    IN  /\ Cardinality(CreatedBy(p))' = Cardinality(CreatedBy(p)) + 1
                        /\ Len(after) = Len(calls[p].codes) + 1
                        /\ SubSeq(after, 1, Len(calls[p].codes)) = calls[p].codes
                        /\ \E row \in CreatedBy(p)' \ CreatedBy(p) :
                              row.code = after[Len(after)].code
                        /\ ~Done(p)' => calls'[p].i = calls[p].i + 1
                        /\ Done(p)'
                           => /\ calls'[p].resp.status = 200
                              /\ Len(after) = (IF calls[p].count <= 100
                                               THEN calls[p].count ELSE 100) ]_vars

\* An issue call asked for two codes has inserted one, and its second slot
\* has been refused by the store.
SlotRefusedWitness ==
    \E p \in GenerateCalls :
        /\ calls[p].collided
        /\ calls[p].count = 2
        /\ Len(calls[p].codes) = 1
        /\ Cardinality(CreatedBy(p)) = 1

(***************************************************************************)
(* C16. The retry loop of issue is bounded, so a call in its loop can      *)
(* always leave the retry branch: whatever the store holds, the generator  *)
(* can produce a value whose INSERT the store does not refuse.             *)
(***************************************************************************)
IssueLoopCanAdvance ==
    \A p \in GenerateCalls :
        calls[p].pc = "insert_code"
        => \E u \in 0 .. GenRange - 1 :
              ~InsertSpinCode(generateSpinCode(u), codes_seq + 1, p).violation

(***************************************************************************)
(* C17. An issue call that failed with a storage failure has left none of  *)
(* the codes it generated in the store.                                    *)
(***************************************************************************)
FailedIssueLeavesNoCodes ==
    \A p \in GenerateCalls :
        (Done(p) /\ calls[p].resp = ErrorResponse(500, "Failed to generate codes"))
        => CreatedBy(p) = {}

(***************************************************************************)
(* C18. Codes issued together (by one issue call that answered success, or *)
(* together before the server started), each redeemed by exactly one call  *)
(* that began after the code was issued, all of which returned without a   *)
(* storage failure: every one of those redeems succeeded, every code is    *)
(* USED and none UNUSED, each code has one outcome row, and the outcome    *)
(* rows are as many as the codes, with distinct ids, the ids the answers   *)
(* carry.                                                                  *)
(***************************************************************************)
\* The codes issued together at time t: 0 is before the server started, p
\* is the issue call p, whose answer must have been success.
Batch(t) ==
    IF t = 0 \/ (t \in GenerateCalls /\ Done(t) /\ calls[t].resp.status = 200)
    THEN {row \in spin_codes : row.created_at = t}
    ELSE {}

RedeemsOf(row) == {p \in PlayCalls : calls[p].code = row.code}

IssueThenRedeemAll ==
    \A t \in {0} \cup Calls :
        LET outcomes == UNION {OutcomeRows(row) : row \in Batch(t)}
        IN  (\A row \in Batch(t) :
                /\ Cardinality(RedeemsOf(row)) = 1
                /\ \A p \in RedeemsOf(row) :
                      /\ calls[p].atStart = "unused"
                      /\ Done(p) /\ ~StorageFailed(p))
            => /\ \A row \in Batch(t) :
                     /\ row.status = "used"
                     /\ Cardinality(OutcomeRows(row)) = 1
                     /\ \A p \in RedeemsOf(row) :
                           /\ Succeeded(p)
                           /\ \E res \in OutcomeRows(row) :
                                 res.id = calls[p].resp.result.spin_id
               /\ Cardinality(outcomes) = Cardinality(Batch(t))
               /\ Cardinality({res.id : res \in outcomes}) = Cardinality(Batch(t))
               /\ Cardinality({res.code_id : res \in outcomes}) = Cardinality(Batch(t))

\* The two codes issued together have each been redeemed by one call, and
\* both calls have returned.
BatchRedeemedWitness ==
    /\ Cardinality(Batch(0)) = 2
    /\ \A row \in Batch(0) :
          /\ Cardinality(RedeemsOf(row)) = 1
          /\ \A p \in RedeemsOf(row) : Succeeded(p)

(***************************************************************************)
(* C19. verify classifies its input in this order: a value that is not     *)
(* exactly five digits is InvalidFormat (400), whether or not the store    *)
(* answers; otherwise, unless the query fails, NotFound (404) when no Code *)
(* has the value, AlreadyUsed (400) when the Code is USED, and valid when  *)
(* it is UNUSED.                                                           *)
(***************************************************************************)
VerifyCalls == {p \in Calls : calls[p].op = "verify"}

\* Exactly five ASCII digits.
FiveDigits(code) ==
    /\ Len(code) = 5
    /\ \A i \in 1 .. Len(code) :
          code[i] \in {"0", "1", "2", "3", "4", "5", "6", "7", "8", "9"}

RepliedValid(p) == calls[p].resp = ErrorResponse(200, "")

VerifyClassifies ==
    \A p \in VerifyCalls :
        /\ Done(p)
        /\ IF ~FiveDigits(calls[p].code)
           THEN RepliedInvalidFormat(p)
           ELSE \/ calls[p].resp = ErrorResponse(500, "Verification failed")
                \/ /\ calls[p].atStart = "absent" /\ RepliedNotFound(p)
                \/ /\ calls[p].atStart = "used" /\ RepliedAlreadyUsed(p)
                \/ /\ calls[p].atStart = "unused" /\ RepliedValid(p)

\* A verify of five characters that are not all digits was answered
\* InvalidFormat, and a verify of an absent value NotFound.
VerifyClassesWitness ==
    \E p, q \in VerifyCalls :
        /\ Len(calls[p].code) = 5 /\ RepliedInvalidFormat(p)
        /\ FiveDigits(calls[q].code) /\ RepliedNotFound(q)

(***************************************************************************)
(* C20. verify is read-only: the step of a verify call, whatever its input *)
(* and its answer, changes no table and no sequence; a verify call never   *)
(* holds a connection, a transaction, a lock or a pending write; and a     *)
(* code that a verify reported valid is still redeemable: the only redeem  *)
(* of it, begun while it was UNUSED, succeeds unless it meets a storage    *)
(* failure.                                                                *)
(***************************************************************************)
VerifyIsReadOnly ==
    /\ [][ \A p \in Calls :
              (calls'[p] # calls[p] /\ calls'[p].op = "verify")
              => UNCHANGED <<spin_codes, spin_results, codes_seq, results_seq>> ]_vars
    /\ [](\A p \in VerifyCalls :
             /\ calls[p].conn = "none" /\ calls[p].tx = "none"
             /\ calls[p].locked = {}
             /\ calls[p].updated = {} /\ calls[p].inserted = {})
    /\ [](\A v \in VerifyCalls, p \in PlayCalls :
             ( /\ RepliedValid(v) /\ calls[v].code = calls[p].code
               /\ v < p
               /\ \A q \in PlayCalls \ {p} : calls[q].code # calls[p].code
               /\ Done(p) )
             => Succeeded(p) \/ StorageFailed(p))

\* A verify reported a code valid and a later redeem of it has succeeded.
VerifyThenRedeemWitness ==
    \E v \in VerifyCalls, p \in PlayCalls :
        /\ v < p
        /\ calls[v].code = calls[p].code
        /\ RepliedValid(v)
        /\ Succeeded(p)

(***************************************************************************)
(* C21. verify takes no lock. While a redeem transaction holds the row     *)
(* lock of a code, a verify of that code can run at once and be answered   *)
(* from the store. The step of a verify leaves every other call, the       *)
(* tables and all row locks as they were, and its answer is the committed  *)
(* status of the code: valid while the row is committed as UNUSED (even    *)
(* with an uncommitted UPDATE of a redeem on it), AlreadyUsed once the     *)
(* redemption is committed.                                                *)
(***************************************************************************)
VerifyTakesNoLock ==
    [][ \A v \in Calls :
          /\ \A q \in PlayCalls :
                (MayStart(v) /\ calls[q].locked # {})
                => ENABLED ( /\ Verify(v)
                             /\ calls'[v].code = calls[q].code
                             /\ calls'[v].resp.status # 500 )
          /\ (calls[v].op = "none" /\ calls'[v].op = "verify")
             => /\ \A q \in Calls \ {v} : calls'[q] = calls[q]
                /\ DbUnchanged
                /\ Done(v)'
                /\ calls'[v].locked = {} /\ calls'[v].tx = "none"
                /\ (ValidFormat(calls'[v].code) /\ calls'[v].resp.status # 500)
                   => /\ RepliedValid(v)'
                         <=> \E row \in CodeRows(calls'[v].code) : row.status = "unused"
                      /\ RepliedAlreadyUsed(v)'
                         <=> \E row \in CodeRows(calls'[v].code) : row.status = "used"
      ]_vars

\* A verify, begun after a redeem of the same code had begun, was answered
\* valid while that redeem holds the row lock with its UPDATE uncommitted.
VerifyDuringRedeemWitness ==
    \E v \in VerifyCalls, q \in PlayCalls :
        /\ q < v
        /\ calls[v].code = calls[q].code
        /\ RepliedValid(v)
        /\ calls[q].updated # {}
        /\ calls[q].locked # {}
        /\ calls[q].pc \in {"insert", "commit"}

(***************************************************************************)
(* Vocabulary of the properties of the Outcome Selector.                   *)
(***************************************************************************)
DrawCalls == {p \in Calls : calls[p].op = "draw"}

\* The configured tiers.
Tiers == {SPIN_OUTCOMES[i] : i \in 1 .. Len(SPIN_OUTCOMES)}

LastTier == SPIN_OUTCOMES[Len(SPIN_OUTCOMES)]

\* The cumulative weight of tier i: the sum of the weights of tiers 1 .. i.
RECURSIVE SumOfWeights(_)
SumOfWeights(i) == IF i = 0 THEN 0 ELSE SumOfWeights(i - 1) + SPIN_OUTCOMES[i].weight

\* The tiers whose cumulative weight is >= r.
Reaching(r) == {i \in 1 .. Len(SPIN_OUTCOMES) : Ticks * SumOfWeights(i) >= r}

\* The reference selection: the first tier whose cumulative weight is >= r.
Reference(r) ==
    SPIN_OUTCOMES[CHOOSE i \in Reaching(r) : \A j \in Reaching(r) : i <= j]

\* Values above every cumulative weight.
BeyondSum ==
    {r \in 0 .. 100 * Ticks + Ticks : Reaching(r) = {}}

\* The grid values strictly between two multiples of 0.01: each stands for
\* one of the 100 open intervals of length 0.01 that make up [0, 1) but for
\* the multiples of 0.01 themselves, which have measure zero.
Interior == {r \in RandomValues : r % Ticks # 0}

\* Hundredths of [0, 1) that draw maps to tier i.
Share ==
    [ i \in 1 .. Len(SPIN_OUTCOMES) |->
        Cardinality({r \in Interior : selectWeightedOutcome(r) = SPIN_OUTCOMES[i]}) ]

(***************************************************************************)
(* C22. For every random value r in [0, 1) the tier draw returns is the    *)
(* tier of the reference selection: the first tier, in configured order,   *)
(* whose cumulative weight is >= r.                                        *)
(***************************************************************************)
DrawEqualsReference ==
    [][ \A p \in Calls :
          (calls[p].pc = "walk" /\ calls'[p].pc = "done")
          => /\ calls[p].random \in RandomValues
             /\ calls'[p].outcome = Reference(calls[p].random)
      ]_vars

\* One draw has returned "$25", the tier whose cumulative weight is 0.5, and
\* the next draw has r = 0.5 in hand, equal to that cumulative weight.
DrawBoundaryWitness ==
    \E p, q \in DrawCalls :
        /\ Done(p) /\ calls[p].outcome = SPIN_OUTCOMES[4]
        /\ calls[q].pc = "walk" /\ calls[q].random = 50 * Ticks

(***************************************************************************)
(* C23. draw is total and closed over the tier table: a draw in progress   *)
(* can always return, what it returns is one of the configured tiers, and  *)
(* a value that no cumulative weight reaches gets the last tier.           *)
(***************************************************************************)
DrawIsTotal ==
    /\ \A p \in DrawCalls :
          /\ calls[p].pc = "walk"
             => /\ ENABLED DrawWalk(p)
                /\ selectWeightedOutcome(calls[p].random) \in Tiers
          /\ Done(p) => calls[p].outcome \in Tiers
    /\ BeyondSum # {}
    /\ \A r \in BeyondSum : selectWeightedOutcome(r) = LastTier

\* One draw has returned the last tier and the next has the greatest value
\* of the random source in hand.
DrawLastTierWitness ==
    \E p, q \in DrawCalls :
        /\ Done(p) /\ calls[p].outcome = LastTier
        /\ calls[q].pc = "walk" /\ calls[q].random = 100 * Ticks - 1

(***************************************************************************)
(* C24. The share of [0, 1) that draw maps to a tier is the weight of the  *)
(* tier: 0.05, 0.10, 0.15, 0.20, 0.20, 0.20, 0.10 in configured order, and *)
(* every draw returns a tier of positive share.                            *)
(***************************************************************************)
ShareEqualsWeight ==
    /\ \A i \in 1 .. Len(SPIN_OUTCOMES) : Share[i] = SPIN_OUTCOMES[i].weight
    /\ Share = <<5, 10, 15, 20, 20, 20, 10>>
    /\ \A p \in DrawCalls :
          Done(p) => \E i \in 1 .. Len(SPIN_OUTCOMES) :
                        calls[p].outcome = SPIN_OUTCOMES[i] /\ Share[i] > 0

\* Two draws have returned, "$10" and "$5": two tiers of equal weight.
TwoTiersDrawnWitness ==
    \E p, q \in DrawCalls :
        /\ Done(p) /\ calls[p].outcome.prize = "$10"
        /\ Done(q) /\ calls[q].outcome.prize = "$5"

(***************************************************************************)
(* C25. The Outcome Selector is a pure function of an injectable random    *)
(* source: what a draw returns is fixed by what its caller passes to it,   *)
(* so that two calls given the same arguments return the same tier.        *)
(* selectWeightedOutcome takes no argument.                                *)
(***************************************************************************)
DrawPinnedByCaller ==
    \A p, q \in DrawCalls :
        (Done(p) /\ Done(q)) => calls[p].outcome = calls[q].outcome

(***************************************************************************)
(* C26. Every RedemptionOutcome row, committed or still pending in its     *)
(* transaction, records one configured tier: its label, its prize value    *)
(* (in cents, >= 0) and its probability are the label, payout and weight   *)
(* of the same tier. A row a redemption has inserted records the tier its  *)
(* draw returned, and that is the row the successful call reports.         *)
(***************************************************************************)
OutcomeRowIsOneTier ==
    /\ \A res \in spin_results \cup UNION {calls[p].inserted : p \in Calls} :
          /\ res.prize_cents >= 0
          /\ \E tier \in Tiers :
                /\ res.outcome = tier.prize
                /\ res.prize_cents = tier.cents
                /\ parseFloat(res.odds) = tier.weight
    /\ \A p \in PlayCalls :
          /\ calls[p].pc = "commit"
             => /\ calls[p].outcome \in Tiers
                /\ calls[p].draws = 1
                /\ calls[p].resultInsert.outcome = calls[p].outcome.prize
                /\ calls[p].resultInsert.prize_cents = calls[p].outcome.cents
                /\ parseFloat(calls[p].resultInsert.odds) = calls[p].outcome.weight
                /\ InTransaction(calls[p]) => calls[p].inserted = {calls[p].resultInsert}
          /\ Succeeded(p)
             => \E res \in spin_results :
                   /\ res.id = calls[p].resp.result.spin_id
                   /\ res.outcome = calls[p].resp.result.outcome
                   /\ res.prize_cents = calls[p].resp.result.prize_cents
                   /\ parseFloat(res.odds) = calls[p].resp.result.odds

\* A redemption that drew the last tier has committed its row: "Try Again",
\* 0 cents, probability 0.1.
LastTierRowWitness ==
    \E p \in PlayCalls, res \in spin_results :
        /\ Succeeded(p)
        /\ res.id = calls[p].resp.result.spin_id
        /\ res.outcome = LastTier.prize
        /\ res.prize_cents = 0
        /\ res.odds = <<"0", ".", "1">>

(***************************************************************************)
(* C27. In every committed state a Code row has a usedAt timestamp if and  *)
(* only if its status is USED (used_at 0 stands for NULL). A row that an   *)
(* issue has created and no redemption has committed on has none.          *)
(***************************************************************************)
UsedAtIffUsed ==
    /\ \A row \in spin_codes :
          /\ row.status \in {"unused", "used"}
          /\ (row.used_at # 0) <=> (row.status = "used")
    /\ \A g \in GenerateCalls : \A row \in CreatedBy(g) :
          OutcomeRows(row) = {} => (row.status = "unused" /\ row.used_at = 0)

\* A code issued by a call is unused without usedAt, while an older code
\* has been redeemed and has both.
UsedAtWitness ==
    \E g \in GenerateCalls, row \in spin_codes, old \in spin_codes :
        /\ row \in CreatedBy(g)
        /\ row.status = "unused" /\ row.used_at = 0
        /\ old.status = "used" /\ old.used_at # 0

(***************************************************************************)
(* C28. The redemption flow is the only writer of status and usedAt: in    *)
(* every step, a Code row that exists keeps its status and usedAt unless   *)
(* the step is the COMMIT of a redeem call that has updated this row.      *)
(* Steps of issue, verify and the two admin listings change neither.       *)
(***************************************************************************)
OnlyRedeemWritesStatus ==
    [][ \A row \in spin_codes :
          \/ \E after \in spin_codes' :
                /\ after.id = row.id /\ after.code = row.code
                /\ after.status = row.status /\ after.used_at = row.used_at
          \/ \E p \in PlayCalls :
                /\ calls[p].pc = "commit" /\ calls'[p].pc # "commit"
                /\ row.id \in calls[p].updated
      ]_vars

\* An issue call has created a code and a verify call has been answered
\* valid for the code issued before; that code's row is as it was.
OthersLeaveStatusWitness ==
    \E g \in GenerateCalls, v \in VerifyCalls :
        /\ Done(g) /\ calls[g].resp.status = 200 /\ CreatedBy(g) # {}
        /\ Done(v) /\ RepliedValid(v) /\ calls[v].code = generateSpinCode(0)
        /\ IssuedBefore \subseteq spin_codes

(***************************************************************************)
(* C29. A committed RedemptionOutcome row is never mutated or deleted:     *)
(* every row of spin_results is in the table, with the same code           *)
(* reference, label, prize value, probability and timestamp, after every   *)
(* step.                                                                   *)
(***************************************************************************)
OutcomeRowsImmutable ==
    [][ \A res \in spin_results :
          \E after \in spin_results' :
             /\ after.id = res.id /\ after.code_id = res.code_id
             /\ after.outcome = res.outcome /\ after.prize_cents = res.prize_cents
             /\ after.odds = res.odds /\ after.created_at = res.created_at
      ]_vars

\* The admin result listing has run after a redemption committed its row,
\* and the row is in the table.
ListedRowStaysWitness ==
    \E p \in PlayCalls, a \in Calls, res \in spin_results :
        /\ Succeeded(p)
        /\ res.id = calls[p].resp.result.spin_id
        /\ calls[a].op = "results" /\ Done(a)
        /\ calls[a].resp.status = 200 /\ calls[a].resp.generated = 1

(***************************************************************************)
(* C30. No Code is ever deleted or reused: every Code row is in the table  *)
(* after every step with the same id, value and creation timestamp, and a  *)
(* USED row stays USED; no two rows share an id or a value. So a redeemed  *)
(* value is never again the value of a fresh UNUSED code.                  *)
(***************************************************************************)
CodesNeverDeletedOrReused ==
    /\ [][ \A row \in spin_codes :
              \E after \in spin_codes' :
                 /\ after.id = row.id /\ after.code = row.code
                 /\ after.created_at = row.created_at
                 /\ row.status = "used" => after.status = "used"
          ]_vars
    /\ [](\A r1, r2 \in spin_codes : (r1.id = r2.id \/ r1.code = r2.code) => r1 = r2)

\* The only Code row is USED, and an issue call in its loop has had its
\* slot refused on that value.
RedeemedValueRefusedWitness ==
    \E g \in GenerateCalls, row \in spin_codes :
        /\ spin_codes = {row}
        /\ row.status = "used"
        /\ calls[g].pc = "insert_code" /\ calls[g].collided

(***************************************************************************)
(* C31. Every redeem call delivers a result to its caller: when the        *)
(* handler has ended, a response has been sent, and a storage failure at   *)
(* any point of the call has been answered with HTTP 500.                  *)
(***************************************************************************)
RedeemAlwaysAnswers ==
    \A p \in PlayCalls : Done(p) => calls[p].resp.status \in {200, 400, 404, 500}

(***************************************************************************)
(* Vocabulary of the properties of sessions.                               *)
(***************************************************************************)
\* The routes the documentation lists as requiring authentication.
AdminOps == {"generate", "codes", "results", "logout"}

\* The step is the arrival of a request of call p at one of these routes.
Arrives(p, ops) == calls[p].op = "none" /\ calls'[p].op \in ops

\* The token has a session that is not past its expiry.
ValidNow(token) == \E s \in sessions : s.token = token /\ clock <= s.expires

HasSession(token) == \E s \in sessions : s.token = token

\* The same after the step.
HasSessionAfter(token) == \E s \in sessions' : s.token = token

Rejected401(c) == c.pc = "done" /\ c.resp.status = 401

(***************************************************************************)
(* C32. The admin endpoints require authentication: a request to generate  *)
(* codes, list codes, list results or log out whose token is absent,       *)
(* unknown or expired is answered 401, its handler is not entered and the  *)
(* tables are as before.                                                   *)
(***************************************************************************)
AdminRequiresAuth ==
    [][ \A p \in Calls :
          (Arrives(p, AdminOps) /\ ~ValidNow(calls'[p].token))
          => /\ Rejected401(calls'[p])
             /\ DbUnchanged
      ]_vars

OnlyLoginCreatesSessions ==
    [][ /\ \A p \in Calls :
              /\ Arrives(p, {"login"})
                 => LET c == calls'[p]
                    IN  /\ (c.username = "" \/ c.password = "")
                           => /\ c.resp.status = 400 /\ c.granted = NoToken
                              /\ sessions' = sessions
                        /\ (c.username # "" /\ c.password # "" /\
                             (c.username # ADMIN_USERNAME \/ c.password # ADMIN_PASSWORD))
                           => /\ c.resp.status = 401 /\ c.granted = NoToken
                              /\ sessions' = sessions
              /\ (Arrives(p, AdminOps) /\ ~Rejected401(calls'[p]))
                 => calls'[p].token \in GrantedTokens
        /\ \A s \in sessions' \ sessions :
              \E p \in Calls :
                 /\ Arrives(p, {"login"})
                 /\ calls'[p].username = ADMIN_USERNAME
                 /\ calls'[p].password = ADMIN_PASSWORD
                 /\ calls'[p].resp.status = 200
                 /\ calls'[p].granted = s.token
      ]_vars

(***************************************************************************)
(* C36. Rate limiting is built in: of the verify and redeem requests one   *)
(* client sends within one time window, the server lets no more than a     *)
(* bounded number query the store. All requests of a behaviour are taken   *)
(* to come from one client within one window, and the bound to lie below   *)
(* their number.                                                           *)
(***************************************************************************)
RateLimit == NumCalls - 1

\* The verify and redeem requests that were given a query on the store.
Processed ==
    {p \in Calls :
        \/ calls[p].op = "verify" /\ ValidFormat(calls[p].code) /\ Done(p)
        \/ calls[p].op = "play" /\ calls[p].conn # "none"}

RequestsAreRateLimited == Cardinality(Processed) <= RateLimit

(***************************************************************************)
(* C37. Every Code an issue call has created has a value of exactly five   *)
(* digits that passes the format check, over the whole range of the        *)
(* generator, and as long as it has no outcome it is UNUSED without        *)
(* usedAt and verify would report it valid. A verify that found it UNUSED  *)
(* answered valid; a redeem that found it UNUSED succeeded, unless another *)
(* redeem of it succeeded or the call met a storage failure.               *)
(***************************************************************************)
IssuedCodesAreRedeemable ==
    /\ \A u \in {0, 1, 89998, 89999} :
          FiveDigits(generateSpinCode(u)) /\ ValidFormat(generateSpinCode(u))
    /\ \A g \in GenerateCalls : \A row \in CreatedBy(g) :
          /\ FiveDigits(row.code)
          /\ ValidFormat(row.code)
          /\ OutcomeRows(row) = {}
             => /\ row.status = "unused" /\ row.used_at = 0
                /\ VerifyResponse(CodeRows(row.code)) = ErrorResponse(200, "")
    /\ \A v \in VerifyCalls :
          (calls[v].atStart = "unused" /\ calls[v].resp.status # 500) => RepliedValid(v)
    /\ \A p \in PlayCalls :
          (calls[p].atStart = "unused" /\ Done(p) /\ ~StorageFailed(p))
          => \/ Succeeded(p)
             \/ /\ RepliedAlreadyUsed(p)
                /\ \E q \in PlayCalls \ {p} :
                      Succeeded(q) /\ calls[q].code = calls[p].code

\* A code that an issue call created on the empty store has been redeemed.
IssuedCodeRedeemedWitness ==
    \E g \in GenerateCalls, p \in PlayCalls :
        \E row \in CreatedBy(g) :
            /\ row.code = calls[p].code
            /\ calls[p].atStart = "unused"
            /\ Succeeded(p)
            /\ row.status = "used"

(***************************************************************************)
(* C38. Concurrent redeem calls cannot deadlock. A redeem call holds at    *)
(* most one row lock, only inside its open transaction and only between    *)
(* its SELECT ... FOR UPDATE and its COMMIT or ROLLBACK; the call whose     *)
(* lock a redeem waits for is never itself waiting. When every query that  *)
(* was sent returns or fails, no redeem waits for a row lock forever and   *)
(* no redeem call holds a connection forever: a call that waits comes to   *)
(* a state where it does not, and a call that holds a connection comes to  *)
(* a state where it has released it, which it does only on returning.      *)
(***************************************************************************)
Waiting(p) ==
    /\ calls[p].op = "play"
    /\ calls[p].pc = "select"
    /\ MustWait(p, RowsByCode(calls[p].code))

HoldersBefore(p) ==
    {q \in Calls \ {p} : \E row \in RowsByCode(calls[p].code) : row.id \in calls[q].locked}

RedeemsCannotDeadlock ==
    /\ [](\A p \in PlayCalls :
            /\ Cardinality(calls[p].locked) <= 1
            /\ calls[p].locked # {}
               => /\ calls[p].tx = "open"
                  /\ calls[p].conn = "held"
                  /\ calls[p].pc \in {"update", "insert", "commit", "rollback", "catch"}
            /\ Waiting(p) => \A q \in HoldersBefore(p) : ~Waiting(q))
    /\ [](\A p \in Calls : calls[p].conn = "released" => Done(p))
    /\ \A p \in Calls : []<>(~Waiting(p))
    /\ \A p \in Calls : []<>(calls[p].conn # "held")

\* A redeem waits for the row lock of a redeem that is about to commit.
RedeemWaitsForLockWitness ==
    \E p, q \in PlayCalls :
        /\ Waiting(p)
        /\ q \in HoldersBefore(p)
        /\ calls[q].pc = "commit"
        /\ calls[q].updated # {}

(***************************************************************************)
(* C39. A code is made unredeemable only by a committed redemption. A row  *)
(* is used only when the redeem that marked it has committed and answered  *)
(* with its result, so an attempt that failed or was rolled back leaves    *)
(* the row unused; a redeem whose SELECT finds the row unused and unlocked *)
(* reads it as unused and goes on to the update; a redeem answers          *)
(* 'Code already used' only when another redeem of the code succeeded; and *)
(* a redeem of a code that was unused when it arrived succeeds unless it   *)
(* meets a storage failure itself or another redeem of the code succeeds.  *)
(***************************************************************************)
SucceededOn(code) == {p \in PlayCalls : Succeeded(p) /\ calls[p].code = code}

OnlyCommitMakesUnredeemable ==
    /\ \A row \in spin_codes :
          row.status = "used"
          => /\ row.used_at \in SucceededOn(row.code)
             /\ \E res \in OutcomeRows(row) : res.created_at = row.used_at
    /\ \A q \in PlayCalls :
          /\ (/\ calls[q].pc = "select"
              /\ StatusOf(calls[q].code) = "unused"
              /\ ~MustWait(q, RowsByCode(calls[q].code)))
             => ENABLED (PlaySelect(q) /\ calls'[q].pc = "update")
          /\ RepliedAlreadyUsed(q)
             => /\ StatusOf(calls[q].code) = "used"
                /\ SucceededOn(calls[q].code) \ {q} # {}
          /\ (calls[q].atStart = "unused" /\ Done(q) /\ ~StorageFailed(q)
                /\ SucceededOn(calls[q].code) \ {q} = {})
             => Succeeded(q)

\* A redeem that had locked the unused row and drawn failed and was rolled
\* back; a later redeem of the same code, which arrived while the code was
\* unused, succeeded.
RolledBackThenRedeemedWitness ==
    \E p, q \in PlayCalls :
        /\ p < q
        /\ calls[p].code = calls[q].code
        /\ calls[p].draws = 1 /\ StorageFailed(p)
        /\ calls[q].atStart = "unused"
        /\ Succeeded(q)
        /\ StatusOf(calls[q].code) = "used"

(***************************************************************************)
(* C40. A redeem call that took a connection from the pool releases it     *)
(* exactly once, on returning, and never with its transaction open: a      *)
(* COMMIT or a ROLLBACK has completed on it first, so the call keeps no    *)
(* row lock. The handler answers 200 only after its COMMIT has completed   *)
(* and 400, 404 or 500 only after a ROLLBACK has, and on no other path     *)
(* does either complete, so the answer of a call tells which one did.      *)
(***************************************************************************)
CommitCompleted(p) == Succeeded(p)

RollbackCompleted(p) == Done(p) /\ calls[p].resp.status \in {400, 404, 500}

====
